---- MODULE Spec2Model ----
(***************************************************************************)
(* Model of scripts/main.py: the BetAgainstStreaks algorithm.              *)
(*                                                                         *)
(* The algorithm object holds UNIVERSE (a list of symbols), holdings (a    *)
(* dict symbol -> age in rebalance cycles) and plot_count.  The host calls *)
(* CoarseSelectionFunction, OnSecuritiesChanged and rebalance, one at a    *)
(* time.  The History response, the coarse snapshot and the list of        *)
(* removed securities are inputs of the host.                              *)
(*                                                                         *)
(* Symbols are the integers 1..NumSymbols, ordered as the host orders its  *)
(* Symbol objects (unstack sorts the columns of the history frame).        *)
(* Prices are non-negative integers (a price unit), NaN marks a missing    *)
(* cell of the history frame.                                              *)
(***************************************************************************)
EXTENDS Integers, Sequences, FiniteSets

VARIABLES
    UNIVERSE,       \* self.UNIVERSE: list of symbols
    holdings,       \* self.holdings: function symbol -> age
    plot_count,     \* self.plot_count
    callback,       \* the callback of the algorithm that ran last
    close_present,  \* whether the History response of that callback had a close column
    SetHoldings,    \* the SetHoldings calls of that callback, <<symbol, side>> in call order
    Liquidate,      \* the Liquidate calls of that callback: symbol -> number of calls
    Plot,           \* the Plot calls of that callback: the values plotted, in call order
    probe           \* input and result of a function applied on its own

vars == <<UNIVERSE, holdings, plot_count, callback, close_present,
          SetHoldings, Liquidate, Plot, probe>>

\* the state of the algorithm object and the calls of its last callback
algorithm == <<UNIVERSE, holdings, plot_count, callback, close_present,
               SetHoldings, Liquidate, Plot>>

-----------------------------------------------------------------------------
(* Bounds of the model *)

NumSymbols == 2
MaxDedupCalls == 2
MaxExtra == 2
MaxCycles == 12
ExtraListed == 1

Symbols == 1..NumSymbols

-----------------------------------------------------------------------------
(* Program constants, Initialize *)

_num_coarse == 100
streak_number == 5
max_holding_period == 5
MinAdjustedPrice == 5
MaxAdjustedPrice == 1000
Float32Precision == 24

\* the sides of SetHoldings: -allocation_pct and +allocation_pct
ShortSide == "-allocation_pct"
LongSide == "+allocation_pct"

\* a missing cell of the history frame, and an undefined percent change
NaN == -1
UndefinedChange == 2

\* the instruments the coarse snapshots list over time when the Universe
\* moves: more than one Universe of one symbol can fill holdings with
NumListed == max_holding_period + ExtraListed

\* every instrument of the model
Instruments == 1..(IF NumListed > NumSymbols THEN NumListed ELSE NumSymbols)

-----------------------------------------------------------------------------
(* Lists *)

Range(s) == {s[i] : i \in DOMAIN s}

RECURSIVE SortedList(_)
\* the members of a set of symbols as an ascending list
SortedList(S) ==
    IF S = {} THEN <<>>
    ELSE LET m == CHOOSE x \in S : \A y \in S : x <= y
         IN <<m>> \o SortedList(S \ {m})

\* list.remove(x): delete the first occurrence of x
ListRemove(lst, x) ==
    LET i == CHOOSE k \in DOMAIN lst : lst[k] = x /\ \A j \in 1..(k - 1) : lst[j] # x
    IN SubSeq(lst, 1, i - 1) \o SubSeq(lst, i + 1, Len(lst))

-----------------------------------------------------------------------------
(* get_streaking_symbols *)

RECURSIVE Float32Ulp(_, _)
\* the spacing of float32 values around x >= 0
Float32Ulp(x, u) ==
    IF x < (2 ^ Float32Precision) * u THEN u ELSE Float32Ulp(x, 2 * u)

\* x rounded to a multiple of u: to the nearest, ties to the even multiple
RoundToMultiple(x, u) ==
    LET q == x \div u
        r == x % u
    IN IF 2 * r < u THEN q * u
       ELSE IF 2 * r > u THEN (q + 1) * u
       ELSE IF q % 2 = 0 THEN q * u ELSE (q + 1) * u

\* astype(np.float32) of a non-negative integer: round to nearest, ties to even
Float32(x) == RoundToMultiple(x, Float32Ulp(x, 1))

RECURSIVE AsFloat32(_)
\* one column of the frame after astype(np.float32)
AsFloat32(col) ==
    IF col = <<>> THEN <<>>
    ELSE <<IF Head(col) = NaN THEN NaN ELSE Float32(Head(col))>> \o AsFloat32(Tail(col))

RECURSIVE FFillFrom(_, _)
\* ffill of the rest of a column, last being the cell above it
FFillFrom(col, last) ==
    IF col = <<>> THEN <<>>
    ELSE LET v == IF Head(col) # NaN THEN Head(col) ELSE last
         IN <<v>> \o FFillFrom(Tail(col), v)

\* ffill of one column: a missing cell takes the last present value above it
FFill(col) == FFillFrom(col, NaN)

RECURSIVE FillNa(_)
\* fillna(0.0) of one column
FillNa(col) ==
    IF col = <<>> THEN <<>>
    ELSE <<IF Head(col) = NaN THEN 0 ELSE Head(col)>> \o FillNa(Tail(col))

\* one column of
\* hist["close"].unstack(level=0).astype(np.float32).sort_index().ffill().fillna(0.0)
CleanColumn(col) == FillNa(FFill(AsFloat32(col)))

\* np.sign of cur / prev - 1 for non-negative prev, cur:
\* 0/0 is NaN, x/0 is +inf whose sign is 1
SignOfChange(prev, cur) ==
    IF prev = 0 THEN (IF cur = 0 THEN UndefinedChange ELSE 1)
    ELSE IF cur > prev THEN 1
    ELSE IF cur < prev THEN -1
    ELSE 0

RECURSIVE SignsFrom(_, _)
SignsFrom(prev, col) ==
    IF col = <<>> THEN <<>>
    ELSE <<SignOfChange(prev, Head(col))>> \o SignsFrom(Head(col), Tail(col))

\* pct_change() followed by np.sign, for one cleaned column; the first row is undefined
PctChangeSign(col) ==
    IF col = <<>> THEN <<>> ELSE <<UndefinedChange>> \o SignsFrom(Head(col), Tail(col))

\* the rows of one column of signs that are undefined
UndefinedRows(signs) == {t \in DOMAIN signs : signs[t] = UndefinedChange}

\* the index of the unstacked frame: unstack(level=0) makes one row per
\* timestamp that is in the response, the days on which some symbol has a bar
PresentRows(hist) ==
    {t \in UNION {DOMAIN hist[s] : s \in DOMAIN hist} :
        \E s \in DOMAIN hist : hist[s][t] # NaN}

RECURSIVE RowsFrom(_, _, _)
RowsFrom(col, t, rows) ==
    IF t > Len(col) THEN <<>>
    ELSE (IF t \in rows THEN <<col[t]>> ELSE <<>>) \o RowsFrom(col, t + 1, rows)

\* one column of the unstacked frame: the symbol's cells on the rows of the
\* frame, in time order, missing where the symbol has no bar
UnstackedColumn(col, rows) == IF rows = DOMAIN col THEN col ELSE RowsFrom(col, 1, rows)

RECURSIVE SignFrame(_, _, _)
\* returns before dropna(): the column of signs of each column of the frame
SignFrame(hist, columns, rows) ==
    IF columns = <<>> THEN <<>>
    ELSE <<PctChangeSign(CleanColumn(UnstackedColumn(hist[Head(columns)], rows)))>>
         \o SignFrame(hist, Tail(columns), rows)

\* dropna(): the rows in which some column is undefined are dropped
DroppedRows(frame) == UNION {UndefinedRows(frame[c]) : c \in DOMAIN frame}

RECURSIVE SumOver(_, _)
SumOver(signs, rows) ==
    IF rows = {} THEN 0
    ELSE LET t == CHOOSE x \in rows : TRUE
         IN signs[t] + SumOver(signs, rows \ {t})

RECURSIVE ColumnSums(_, _)
\* returns.sum(): each column's signs summed over the rows that are left
ColumnSums(frame, dropped) ==
    IF frame = <<>> THEN <<>>
    ELSE <<SumOver(Head(frame), DOMAIN Head(frame) \ dropped)>>
         \o ColumnSums(Tail(frame), dropped)

\* the columns of the unstacked frame: the symbols of the response, sorted
Columns(hist) == SortedList(DOMAIN hist)

\* returns.sum() of a frame of signs
FrameSums(frame) == ColumnSums(frame, DroppedRows(frame))

\* returns.sum() of the frame, in column order
ReturnsSum(hist) == FrameSums(SignFrame(hist, Columns(hist), PresentRows(hist)))

RECURSIVE ColumnsWhere(_, _, _)
\* cond[cond == True].index.tolist() for cond == (sums == target)
ColumnsWhere(columns, sums, target) ==
    IF columns = <<>> THEN <<>>
    ELSE (IF Head(sums) = target THEN <<Head(columns)>> ELSE <<>>)
         \o ColumnsWhere(Tail(columns), Tail(sums), target)

\* a slip: the long condition written as the short one
long_symbols_as_short(columns, sums) == ColumnsWhere(columns, sums, streak_number)

short_symbols(columns, sums) == ColumnsWhere(columns, sums, streak_number)

long_symbols(columns, sums) == ColumnsWhere(columns, sums, -streak_number)

\* the two lists get_streaking_symbols builds from returns.sum()
StreakLists(columns, sums) == <<short_symbols(columns, sums), long_symbols(columns, sums)>>

\* a slip: the price column used without asking whether it is the close column
get_streaking_symbols_unchecked(has_close, hist) ==
    StreakLists(Columns(hist), ReturnsSum(hist))

\* get_streaking_symbols: hist is the price column of the History response,
\* symbol -> its values on the streak_number + 1 days asked for, NaN on a day
\* the symbol has no bar, and has_close is whether that column is the one
\* named close ("close" in hist.columns)
get_streaking_symbols(has_close, hist) ==
    IF has_close THEN StreakLists(Columns(hist), ReturnsSum(hist))
    ELSE <<<<>>, <<>>>>

-----------------------------------------------------------------------------
(* CoarseSelectionFunction, OnSecuritiesChanged *)

\* filter(lambda x: x.AdjustedPrice >= 5.0 and x.AdjustedPrice <= 1000.0, coarse)
PriceFilter(coarse) ==
    SelectSeq(coarse, LAMBDA x : x.AdjustedPrice >= MinAdjustedPrice
                                 /\ x.AdjustedPrice <= MaxAdjustedPrice)

\* whether values[j] comes before values[i] when sorted descending by
\* DollarVolume: the sort is stable, equals keep their order
SortsBefore(values, j, i) ==
    \/ values[j].DollarVolume > values[i].DollarVolume
    \/ values[j].DollarVolume = values[i].DollarVolume /\ j < i

\* <<place in the sorted list, index in values>> of every entry of values
SortedPlaces(values) ==
    {<<1 + Cardinality({j \in DOMAIN values : SortsBefore(values, j, i)}), i>> :
        i \in DOMAIN values}

\* values laid out by their places
LaidOut(values, places) ==
    [k \in DOMAIN values |-> values[(CHOOSE p \in places : p[1] = k)[2]]]

\* sorted(values, key=lambda x: x.DollarVolume, reverse=True)
SortedByDollarVolume(values) == LaidOut(values, SortedPlaces(values))

\* sortedByDollarVolume[: self._num_coarse]
TopEntries(sorted) ==
    SubSeq(sorted, 1, IF Len(sorted) < _num_coarse THEN Len(sorted) ELSE _num_coarse)

\* [x.Symbol for x in top if x.HasFundamentalData]
SymbolsWithFundamentalData(top) ==
    LET kept == SelectSeq(top, LAMBDA x : x.HasFundamentalData)
    IN [i \in DOMAIN kept |-> kept[i].Symbol]

\* the list CoarseSelectionFunction stores in self.UNIVERSE and returns
CoarseSelection(coarse) ==
    SymbolsWithFundamentalData(TopEntries(SortedByDollarVolume(PriceFilter(coarse))))

\* a slip: the loop left after the first removed security
RemoveFirstSecurity(universe, removed) ==
    IF removed # <<>> /\ Head(removed) \in Range(universe)
    THEN ListRemove(universe, Head(removed)) ELSE universe

RECURSIVE RemoveSecurities(_, _)
\* the loop of OnSecuritiesChanged over changes.RemovedSecurities
RemoveSecurities(universe, removed) ==
    IF removed = <<>> THEN universe
    ELSE RemoveSecurities(
             IF Head(removed) \in Range(universe)
             THEN ListRemove(universe, Head(removed)) ELSE universe,
             Tail(removed))

-----------------------------------------------------------------------------
(* The holding-period bookkeeping *)

EmptyHoldings == [s \in {} |-> 0]

RECURSIVE RemoveHeld(_, _, _)
\* "for ss in lst: if ss in self.holdings: lst.remove(ss)": the list iterator
\* keeps an index into the list that remove() shortens under it
RemoveHeld(lst, i, held) ==
    IF i > Len(lst) THEN lst
    ELSE IF lst[i] \in DOMAIN held
         THEN RemoveHeld(ListRemove(lst, lst[i]), i + 1, held)
         ELSE RemoveHeld(lst, i + 1, held)

remove_duplicate_symbols(shorts, longs, held) ==
    <<RemoveHeld(shorts, 1, held), RemoveHeld(longs, 1, held)>>

\* a slip: the counters left as they are
increment_holding_period_skipped(held) == [s \in DOMAIN held |-> held[s]]

increment_holding_period(held) == [s \in DOMAIN held |-> held[s] + 1]

\* a slip: > in the place of >=
StaleHoldingsStrict(held) == {s \in DOMAIN held : held[s] > max_holding_period}

\* a slip: liquidated one cycle early
StaleHoldingsEarly(held) == {s \in DOMAIN held : held[s] >= max_holding_period - 1}

\* the holdings liquidate_stale_holdings calls Liquidate for and deletes
StaleHoldings(held) == {s \in DOMAIN held : held[s] >= max_holding_period}

\* a slip: Liquidate called, the key left in self.holdings
liquidate_stale_holdings_kept(held) == held

\* self.holdings after liquidate_stale_holdings
liquidate_stale_holdings(held) == [s \in DOMAIN held \ StaleHoldings(held) |-> held[s]]

\* "for symbol in symbols: self.SetHoldings(symbol, side); self.holdings[symbol] = 0"
EnterPositions(held, symbols) ==
    [s \in DOMAIN held \cup Range(symbols) |-> IF s \in Range(symbols) THEN 0 ELSE held[s]]

\* a slip: the sign of allocation_pct lost
SetHoldingsCallsShort(symbols, side) == [i \in DOMAIN symbols |-> <<symbols[i], ShortSide>>]

SetHoldingsCalls(symbols, side) == [i \in DOMAIN symbols |-> <<symbols[i], side>>]

-----------------------------------------------------------------------------
(* Inputs of the host *)

\* the days of a History request: streak_number + 1 daily bars
Days == 1..(streak_number + 1)

\* closes 10, 11, 12, 13, 14, 15: an up day every day
UpStreak == [t \in Days |-> 9 + t]

\* closes 15, 14, 13, 12, 11, 10: a down day every day
DownStreak == [t \in Days |-> 16 - t]

\* closes 10, 11, 12, 12, 13, 14: one flat day
BrokenStreak == [t \in Days |-> IF t <= 3 THEN 9 + t ELSE 8 + t]

\* a symbol with four daily bars only: the first two cells are missing
LateListing == [t \in Days |-> IF t <= 2 THEN NaN ELSE 20 + t]

\* the close series a rebalance cycle may see for one symbol
MarketSeries == {UpStreak, DownStreak, BrokenStreak, LateListing}

\* the History responses for a universe: a close series per symbol
HistoryResponses(universe) == [Range(universe) -> MarketSeries]

\* a History response whose price column is not named close
WithoutClose(universe) == [s \in Range(universe) |-> UpStreak]

\* a coarse snapshot of all symbols: those of in_band are priced inside the
\* price band, those of fundamental have fundamental data; dollar volume
\* grows with the symbol
Snapshot(in_band, fundamental) ==
    [s \in Symbols |->
        [Symbol |-> s,
         AdjustedPrice |-> IF s \in in_band THEN MinAdjustedPrice ELSE MinAdjustedPrice - 1,
         DollarVolume |-> s,
         HasFundamentalData |-> s \in fundamental]]

-----------------------------------------------------------------------------
(* The callbacks *)

NoProbe == [op |-> "none"]

NoCalls == [s \in Instruments |-> 0]

\* the algorithm object as Initialize leaves it
Initialize ==
    /\ UNIVERSE = <<>>
    /\ holdings = EmptyHoldings
    /\ plot_count = 0
    /\ callback = "Initialize"
    /\ close_present = TRUE
    /\ SetHoldings = <<>>
    /\ Liquidate = NoCalls
    /\ Plot = <<>>

Init == Initialize /\ probe = NoProbe

\* a callback that asks no History and calls none of SetHoldings, Liquidate, Plot
NoServiceCalls ==
    /\ close_present' = TRUE
    /\ SetHoldings' = <<>>
    /\ Liquidate' = NoCalls
    /\ Plot' = <<>>

CoarseSelectionFunction(coarse) ==
    /\ UNIVERSE' = CoarseSelection(coarse)
    /\ callback' = "CoarseSelectionFunction"
    /\ NoServiceCalls
    /\ UNCHANGED <<holdings, plot_count>>

\* a slip: the removed securities liquidated and dropped from holdings, as the
\* docstring of OnSecuritiesChanged has it
OnSecuritiesChangedLiquidating(removed) ==
    /\ UNIVERSE' = RemoveSecurities(UNIVERSE, removed)
    /\ callback' = "OnSecuritiesChanged"
    /\ close_present' = TRUE
    /\ SetHoldings' = <<>>
    /\ Liquidate' = [s \in Instruments |->
                         IF s \in Range(removed) \cap DOMAIN holdings THEN 1 ELSE 0]
    /\ Plot' = <<>>
    /\ holdings' = [s \in DOMAIN holdings \ Range(removed) |-> holdings[s]]
    /\ UNCHANGED plot_count

OnSecuritiesChanged(removed) ==
    /\ UNIVERSE' = RemoveSecurities(UNIVERSE, removed)
    /\ callback' = "OnSecuritiesChanged"
    /\ NoServiceCalls
    /\ UNCHANGED <<holdings, plot_count>>

\* whether this cycle plots NumHoldings
PlotDue(count) == count >= max_holding_period

\* a slip: increment_holding_period called once more, after the entry loops
HoldingsAgedAfterEntries(aged, entries) ==
    increment_holding_period(
        EnterPositions(EnterPositions(liquidate_stale_holdings(aged), entries[1]),
                       entries[2]))

\* self.holdings when rebalance returns: the stale holdings deleted, then the
\* shorts and the longs entered at age 0
HoldingsAfterRebalance(aged, entries) ==
    EnterPositions(EnterPositions(liquidate_stale_holdings(aged), entries[1]), entries[2])

\* rebalance, each step's result named once:
\*   aged     self.holdings after increment_holding_period
\*   found    what get_streaking_symbols returns
\*   entries  what remove_duplicate_symbols returns
\*   after    self.holdings after liquidate_stale_holdings and the two entry loops
rebalance(has_close, hist) ==
    \E aged \in {increment_holding_period(holdings)},
       found \in {get_streaking_symbols(has_close, hist)} :
    \E entries \in {remove_duplicate_symbols(found[1], found[2], aged)} :
    \E after \in {HoldingsAfterRebalance(aged, entries)} :
       /\ holdings' = after
       /\ plot_count' = IF PlotDue(plot_count) THEN 0 ELSE plot_count + 1
       /\ Plot' = IF PlotDue(plot_count) THEN <<Cardinality(DOMAIN after)>> ELSE <<>>
       /\ callback' = "rebalance"
       /\ close_present' = has_close
       /\ SetHoldings' = SetHoldingsCalls(entries[1], ShortSide)
                           \o SetHoldingsCalls(entries[2], LongSide)
       /\ Liquidate' = [s \in Instruments |-> IF s \in StaleHoldings(aged) THEN 1 ELSE 0]
       /\ UNCHANGED UNIVERSE

\* a snapshot in which the symbols outside listed all fail the same filter
CoarseInputs ==
    {Snapshot(listed, Symbols) : listed \in SUBSET Symbols}
        \cup {Snapshot(Symbols, listed) : listed \in SUBSET Symbols}

\* the callbacks as the host runs them; probe plays no part
Next ==
    \/ \E coarse \in CoarseInputs : CoarseSelectionFunction(coarse) /\ UNCHANGED probe
    \/ \E removed \in SUBSET Symbols :
           OnSecuritiesChanged(SortedList(removed)) /\ UNCHANGED probe
    \/ \E hist \in HistoryResponses(UNIVERSE) : rebalance(TRUE, hist) /\ UNCHANGED probe
    \/ rebalance(FALSE, WithoutClose(UNIVERSE)) /\ UNCHANGED probe

Spec == Init /\ [][Next]_vars

-----------------------------------------------------------------------------
(* get_streaking_symbols applied on its own to a History response *)

\* a symbol with five daily bars: the first cell is missing
OneBarShort == [t \in Days |-> IF t = 1 THEN NaN ELSE 9 + t]

\* closes 10, 11, missing, 13, 14, 15: a day without a bar inside the window
GapInside == [t \in Days |-> IF t = 3 THEN NaN ELSE 9 + t]

\* closes 2^24, 2^24 + 1, ..., 2^24 + 5: rising every day by less than
\* the float32 spacing
FineSteps == [t \in Days |-> 2 ^ Float32Precision + (t - 1)]

\* closes 15, 14, 13, 14, 13, 12: one up day in a falling window
Bounce == [t \in Days |-> IF t <= 3 THEN 16 - t ELSE 18 - t]

StreakSeries == MarketSeries \cup {OneBarShort, GapInside, FineSteps, Bounce}

\* the price columns of the History responses, for the symbols that have bars
StreakInputs == UNION {[having -> StreakSeries] : having \in SUBSET Symbols}

InitStreaks ==
    /\ Initialize
    /\ \E has_close \in BOOLEAN, hist \in StreakInputs :
           probe = [op |-> "get_streaking_symbols", done |-> FALSE,
                    has_close |-> has_close, hist |-> hist]

ApplyStreaks ==
    /\ probe.op = "get_streaking_symbols" /\ ~probe.done
    /\ \E found \in {get_streaking_symbols(probe.has_close, probe.hist)} :
           probe' = [op |-> probe.op, done |-> TRUE, has_close |-> probe.has_close,
                     hist |-> probe.hist, shorts |-> found[1], longs |-> found[2]]
    /\ UNCHANGED algorithm

NextStreaks == ApplyStreaks

SpecStreaks == InitStreaks /\ [][NextStreaks]_vars

-----------------------------------------------------------------------------
(* remove_duplicate_symbols applied on its own, once and again *)

\* the two lists get_streaking_symbols can return: sorted, no symbol in both
CandidateLists ==
    {<<SortedList(pair[1]), SortedList(pair[2])>> :
        pair \in {p \in (SUBSET Symbols) \X (SUBSET Symbols) : p[1] \cap p[2] = {}}}

\* self.holdings as remove_duplicate_symbols can find it: aged by rebalance
AgedHoldings == UNION {[held -> 1..max_holding_period] : held \in SUBSET Symbols}

InitDedup ==
    /\ Initialize
    /\ \E lists \in CandidateLists, held \in AgedHoldings :
           probe = [op |-> "remove_duplicate_symbols", held |-> held,
                    given |-> lists, returned |-> <<>>]

\* the lists the next call of remove_duplicate_symbols is given: those the
\* last call returned
DedupArgument ==
    IF probe.returned = <<>> THEN probe.given ELSE probe.returned[Len(probe.returned)]

\* one more call; returned[k] is what the k-th call returned
ApplyDedup ==
    /\ probe.op = "remove_duplicate_symbols" /\ Len(probe.returned) < MaxDedupCalls
    /\ \E lists \in {remove_duplicate_symbols(DedupArgument[1], DedupArgument[2],
                                              probe.held)} :
           probe' = [probe EXCEPT !.returned = Append(@, lists)]
    /\ UNCHANGED algorithm

NextDedup == ApplyDedup

SpecDedup == InitDedup /\ [][NextDedup]_vars

-----------------------------------------------------------------------------
(* CoarseSelectionFunction applied on its own to a large snapshot *)

\* the sizes of the snapshot: around _num_coarse instruments
SnapshotSizes == (_num_coarse - 1)..(_num_coarse + MaxExtra)

\* how dollar volume runs along the snapshot
VolumeOrders == {"rising", "falling", "equal"}

\* a snapshot of size instruments, all inside the price band and with fundamental
\* data but for the instrument priced out of the band and the one with no data
\* (0: none)
LargeSnapshot(size, order, priced_out, no_data) ==
    [i \in 1..size |->
        [Symbol |-> i,
         AdjustedPrice |-> IF i = priced_out THEN MaxAdjustedPrice + 1 ELSE MaxAdjustedPrice,
         DollarVolume |-> IF order = "rising" THEN i
                          ELSE IF order = "falling" THEN size + 1 - i ELSE 1,
         HasFundamentalData |-> i # no_data]]

\* the instruments that may fail a filter: none, the first two, and one near
\* each end of the top _num_coarse
Picked(size) == {0, 1, 2, _num_coarse, size}

InitCoarse ==
    /\ Initialize
    /\ \E size \in SnapshotSizes, order \in VolumeOrders :
       \E priced_out \in Picked(size), no_data \in Picked(size) :
           probe = [op |-> "CoarseSelectionFunction", done |-> FALSE,
                    coarse |-> LargeSnapshot(size, order, priced_out, no_data)]

\* the callback stores the list in self.UNIVERSE and returns it; universe is
\* the list returned
ApplyCoarse ==
    /\ probe.op = "CoarseSelectionFunction" /\ ~probe.done
    /\ CoarseSelectionFunction(probe.coarse)
    /\ probe' = [op |-> probe.op, done |-> TRUE, coarse |-> probe.coarse,
                 universe |-> UNIVERSE']

NextCoarse == ApplyCoarse

SpecCoarse == InitCoarse /\ [][NextCoarse]_vars

-----------------------------------------------------------------------------
(* One callback on the algorithm as it stands between callbacks, its input   *)
(* kept in probe                                                             *)

\* self.UNIVERSE as CoarseSelectionFunction stores it
SelectedUniverses == {CoarseSelection(coarse) : coarse \in CoarseInputs}

\* self.holdings as a rebalance cycle leaves it: ages below max_holding_period
HeldPositions ==
    UNION {[held -> 0..(max_holding_period - 1)] : held \in SUBSET Symbols}

\* the algorithm between two callbacks, as OnSecuritiesChanged with no removed
\* security leaves it: any Universe, holdings and plot_count that the callbacks
\* run from Initialize arrive at
InitObserved ==
    /\ UNIVERSE \in SelectedUniverses
    /\ holdings \in HeldPositions
    /\ plot_count \in 0..max_holding_period
    /\ callback = "OnSecuritiesChanged"
    /\ close_present = TRUE
    /\ SetHoldings = <<>>
    /\ Liquidate = NoCalls
    /\ Plot = <<>>
    /\ probe = NoProbe

ObservedCoarseSelection(coarse) ==
    /\ probe = NoProbe
    /\ CoarseSelectionFunction(coarse)
    /\ probe' = [op |-> "CoarseSelectionFunction"]

\* RemovedSecurities: the symbols of changes.RemovedSecurities
ObservedSecuritiesChanged(removed) ==
    /\ probe = NoProbe
    /\ OnSecuritiesChanged(removed)
    /\ probe' = [op |-> "OnSecuritiesChanged", RemovedSecurities |-> removed]

\* shorts, longs: the lists get_streaking_symbols returned to rebalance
ObservedRebalance(has_close, hist) ==
    /\ probe = NoProbe
    /\ rebalance(has_close, hist)
    /\ \E found \in {get_streaking_symbols(has_close, hist)} :
           probe' = [op |-> "rebalance", shorts |-> found[1], longs |-> found[2]]

NextObserved ==
    \/ \E coarse \in CoarseInputs : ObservedCoarseSelection(coarse)
    \/ \E removed \in SUBSET Symbols : ObservedSecuritiesChanged(SortedList(removed))
    \/ \E hist \in HistoryResponses(UNIVERSE) : ObservedRebalance(TRUE, hist)
    \/ ObservedRebalance(FALSE, WithoutClose(UNIVERSE))

SpecObserved == InitObserved /\ [][NextObserved]_vars

-----------------------------------------------------------------------------
(* The callbacks from Initialize with the rebalance cycles counted *)

\* cycle: the rebalance cycles run so far; plotted: those among them, by
\* number, that called Plot
InitCycles == Initialize /\ probe = [op |-> "cycles", cycle |-> 0, plotted |-> <<>>]

CountedRebalance(has_close, hist) ==
    /\ probe.op = "cycles" /\ probe.cycle < MaxCycles
    /\ rebalance(has_close, hist)
    /\ probe' = [op |-> "cycles", cycle |-> probe.cycle + 1,
                 plotted |-> IF Plot' # <<>> THEN Append(probe.plotted, probe.cycle + 1)
                             ELSE probe.plotted]

NextCycles ==
    \/ \E coarse \in CoarseInputs : CoarseSelectionFunction(coarse) /\ UNCHANGED probe
    \/ \E removed \in SUBSET Symbols :
           OnSecuritiesChanged(SortedList(removed)) /\ UNCHANGED probe
    \/ \E hist \in HistoryResponses(UNIVERSE) : CountedRebalance(TRUE, hist)
    \/ CountedRebalance(FALSE, WithoutClose(UNIVERSE))

SpecCycles == InitCycles /\ [][NextCycles]_vars

-----------------------------------------------------------------------------
(* The callbacks from Initialize, day by day, with a Universe of one          *)
(* instrument that moves through the listed instruments                      *)

\* a coarse snapshot of one instrument, which passes the filter
SingleSnapshot(s) ==
    <<[Symbol |-> s, AdjustedPrice |-> MinAdjustedPrice, DollarVolume |-> s,
       HasFundamentalData |-> TRUE]>>

\* largest: the largest len(self.UNIVERSE) so far; listed: the instrument of
\* the last coarse snapshot; due: the callback the day goes on with
InitRotation ==
    /\ Initialize
    /\ probe = [op |-> "rotation", largest |-> 0, listed |-> 1,
                due |-> "CoarseSelectionFunction"]

\* the day's coarse selection: the snapshot lists the instrument of the day
\* before or the one after it
RotatingCoarseSelection(s) ==
    /\ probe.op = "rotation" /\ probe.due = "CoarseSelectionFunction"
    /\ CoarseSelectionFunction(SingleSnapshot(s))
    /\ probe' = [op |-> "rotation",
                 largest |-> IF Len(UNIVERSE') > probe.largest THEN Len(UNIVERSE')
                             ELSE probe.largest,
                 listed |-> s,
                 due |-> "OnSecuritiesChanged"]

\* the changes of the day: the instrument of the Universe removed, or none
DailySecuritiesChanged(removed) ==
    /\ probe.op = "rotation" /\ probe.due = "OnSecuritiesChanged"
    /\ OnSecuritiesChanged(removed)
    /\ probe' = [probe EXCEPT !.due = "rebalance"]

\* the scheduled rebalance of the day
DailyRebalance(has_close, hist) ==
    /\ probe.op = "rotation" /\ probe.due = "rebalance"
    /\ rebalance(has_close, hist)
    /\ probe' = [probe EXCEPT !.due = "CoarseSelectionFunction"]

NextRotation ==
    \/ \E s \in {probe.listed, (probe.listed % NumListed) + 1} : RotatingCoarseSelection(s)
    \/ \E removed \in {<<>>, UNIVERSE} : DailySecuritiesChanged(removed)
    \/ \E hist \in HistoryResponses(UNIVERSE) : DailyRebalance(TRUE, hist)
    \/ DailyRebalance(FALSE, WithoutClose(UNIVERSE))

SpecRotation == InitRotation /\ [][NextRotation]_vars

-----------------------------------------------------------------------------
(* The properties *)

\* the symbols the last callback called SetHoldings for
Entered == {SetHoldings[i][1] : i \in DOMAIN SetHoldings}

\* C1: dedup invariant. A rebalance cycle issues no SetHoldings call for a
\* symbol that was a key of holdings when the cycle (and so its dedup step)
\* ran, and does not set such a symbol back to age 0.
C1_HeldNeverReentered ==
    [][callback' = "rebalance" =>
          \A s \in DOMAIN holdings :
              /\ s \notin Entered'
              /\ s \in DOMAIN holdings' => holdings'[s] # 0]_vars

\* C2: after every completed rebalance cycle every symbol in holdings has an
\* age strictly below max_holding_period.
C2_AgesBelowMaximum ==
    callback = "rebalance" => \A s \in DOMAIN holdings : holdings[s] < max_holding_period

\* a cycle has completed that liquidated a stale holding and kept another one
\* that is one cycle from its maximum
C2_Witness ==
    /\ callback = "rebalance"
    /\ \E s \in Symbols : Liquidate[s] = 1
    /\ \E s \in DOMAIN holdings : holdings[s] = max_holding_period - 1

\* C3: in the cycle in which a held symbol's age reaches max_holding_period,
\* Liquidate is called for it exactly once, it is absent from holdings when the
\* cycle completes, and no SetHoldings call is issued for it in that cycle.
C3_ExpiredNotReentered ==
    [][callback' = "rebalance" =>
          \A s \in DOMAIN holdings :
              holdings[s] + 1 = max_holding_period =>
                  /\ Liquidate'[s] = 1
                  /\ s \notin DOMAIN holdings'
                  /\ s \notin Entered']_vars

\* C4: a position is kept for exactly max_holding_period cycles: in every
\* cycle the age of a held symbol goes up by exactly one while that stays
\* below max_holding_period, and Liquidate is issued for it in the cycle in
\* which it reaches max_holding_period.
C4_KeptForHoldingPeriod ==
    [][callback' = "rebalance" =>
          \A s \in DOMAIN holdings :
              IF holdings[s] + 1 < max_holding_period
              THEN s \in DOMAIN holdings' /\ holdings'[s] = holdings[s] + 1
              ELSE Liquidate'[s] = 1]_vars

\* C5: dedup is idempotent. A second call of remove_duplicate_symbols, on the
\* lists the first call returned, returns the same lists.
C5_DedupIdempotent ==
    (probe.op = "remove_duplicate_symbols" /\ Len(probe.returned) >= 2)
        => probe.returned[2] = probe.returned[1]

\* C6: the short list and the long list get_streaking_symbols returns have
\* no symbol in common.
C6_ListsDisjoint ==
    (probe.op = "get_streaking_symbols" /\ probe.done)
        => Range(probe.shorts) \cap Range(probe.longs) = {}

\* get_streaking_symbols has returned a short candidate and a long candidate
C6_Witness ==
    /\ probe.op = "get_streaking_symbols" /\ probe.done
    /\ probe.shorts # <<>> /\ probe.longs # <<>>

\* every close of the series is present and positive
OwnClosesPresent(col) == \A t \in DOMAIN col : col[t] # NaN /\ col[t] > 0

\* every day-over-day return of the series is strictly positive
RisesEveryDay(col) == \A t \in 2..Len(col) : col[t] > col[t - 1]

\* every day-over-day return of the series is strictly negative
FallsEveryDay(col) == \A t \in 2..Len(col) : col[t] < col[t - 1]

\* astype(np.float32) leaves every close of the series as it is
ExactInFloat32(col) == \A t \in DOMAIN col : col[t] = NaN \/ Float32(col[t]) = col[t]

\* C7: a symbol whose own streak_number + 1 closes are present and positive is
\* in the short list iff each of its returns is strictly positive and in the
\* long list iff each is strictly negative, whatever the other symbols' data.
\* Stated for the closes that float32 holds exactly, where the rounding of
\* astype(np.float32) plays no part.
C7_StreaksClassified ==
    (probe.op = "get_streaking_symbols" /\ probe.done /\ probe.has_close)
        => \A s \in DOMAIN probe.hist :
               (OwnClosesPresent(probe.hist[s]) /\ ExactInFloat32(probe.hist[s])) =>
                   /\ s \in Range(probe.shorts) <=> RisesEveryDay(probe.hist[s])
                   /\ s \in Range(probe.longs) <=> FallsEveryDay(probe.hist[s])

\* the instruments of a snapshot that pass the filter: adjusted price inside
\* the band and valid fundamental data
PassFilter(coarse) ==
    {i \in DOMAIN coarse :
        /\ coarse[i].AdjustedPrice >= MinAdjustedPrice
        /\ coarse[i].AdjustedPrice <= MaxAdjustedPrice
        /\ coarse[i].HasFundamentalData}

\* C8: the Universe is the top _num_coarse by dollar volume of the instruments
\* that pass the filter: it holds only such instruments, exactly _num_coarse of
\* them whenever that many pass, and none that passes is left out in favour of
\* one with lower dollar volume.
C8_TopOfThosePassing ==
    (probe.op = "CoarseSelectionFunction" /\ probe.done)
        => /\ \A i \in DOMAIN probe.coarse :
                  probe.coarse[i].Symbol \in Range(probe.universe)
                      => i \in PassFilter(probe.coarse)
           /\ Cardinality(PassFilter(probe.coarse)) >= _num_coarse
                  => Len(probe.universe) = _num_coarse
           /\ \A i \in PassFilter(probe.coarse), j \in DOMAIN probe.coarse :
                  (/\ probe.coarse[i].Symbol \notin Range(probe.universe)
                   /\ probe.coarse[j].Symbol \in Range(probe.universe))
                      => probe.coarse[j].DollarVolume >= probe.coarse[i].DollarVolume

\* C9: a rebalance cycle whose History response has no close column issues no
\* SetHoldings call and adds no symbol to holdings.
C9_MissingCloseNoEntries ==
    [][(callback' = "rebalance" /\ ~close_present') =>
          /\ SetHoldings' = <<>>
          /\ DOMAIN holdings' \subseteq DOMAIN holdings]_vars

\* a cycle without close column has completed while the Universe had symbols
\* and positions were held
C9_Witness ==
    /\ callback = "rebalance" /\ ~close_present
    /\ UNIVERSE # <<>>
    /\ holdings # EmptyHoldings

\* C10 as claimed: a cycle without close column calls neither SetHoldings nor
\* Liquidate and leaves holdings, keys and ages, as it was.
C10_MissingCloseDoesNothing ==
    [][(callback' = "rebalance" /\ ~close_present') =>
          /\ SetHoldings' = <<>>
          /\ Liquidate' = NoCalls
          /\ holdings' = holdings]_vars

\* C10 as amended: a cycle without close column issues no SetHoldings call; it
\* still ages every holding by one and liquidates, and deletes, exactly those
\* whose age has reached max_holding_period.
C10_MissingCloseStillAges ==
    [][(callback' = "rebalance" /\ ~close_present') =>
          /\ SetHoldings' = <<>>
          /\ DOMAIN holdings' =
                 {s \in DOMAIN holdings : holdings[s] + 1 < max_holding_period}
          /\ \A s \in DOMAIN holdings' : holdings'[s] = holdings[s] + 1
          /\ \A s \in Symbols :
                 Liquidate'[s] = IF s \in DOMAIN holdings \ DOMAIN holdings' THEN 1 ELSE 0]_vars

\* a cycle without close column has completed that liquidated a holding and
\* kept an aged one
C10_Witness ==
    /\ callback = "rebalance" /\ ~close_present
    /\ \E s \in Symbols : Liquidate[s] = 1
    /\ \E s \in DOMAIN holdings : holdings[s] > 0

\* between callbacks the algorithm is in one of the states of InitObserved
BetweenCallbacks ==
    /\ UNIVERSE \in SelectedUniverses
    /\ holdings \in HeldPositions
    /\ plot_count \in 0..max_holding_period

\* C11: OnSecuritiesChanged removes each reported removed symbol from the
\* Universe if present and changes nothing else: it issues no Liquidate call
\* (nor any other) and leaves holdings, keys and ages, and plot_count as they
\* were, also when a removed symbol is held.
C11_OnlyUniverseChanges ==
    [][probe'.op = "OnSecuritiesChanged" =>
          /\ UNIVERSE' = SelectSeq(UNIVERSE,
                              LAMBDA s : s \notin Range(probe'.RemovedSecurities))
          /\ Liquidate' = NoCalls
          /\ SetHoldings' = <<>>
          /\ Plot' = <<>>
          /\ holdings' = holdings
          /\ plot_count' = plot_count]_vars

\* OnSecuritiesChanged has run for two removed symbols, the second of them
\* held, while another symbol stays in the Universe
C11_Witness ==
    /\ probe.op = "OnSecuritiesChanged"
    /\ Len(probe.RemovedSecurities) >= 2
    /\ probe.RemovedSecurities[2] \in DOMAIN holdings
    /\ Range(probe.RemovedSecurities) \cap Range(UNIVERSE) = {}

\* C12: a held symbol that is out of the Universe expires by the holding-period
\* logic alone: no callback but rebalance touches it, a rebalance cycle ages it
\* by one while that stays below max_holding_period, and the cycle in which its
\* age reaches max_holding_period, and no earlier one, liquidates it and
\* removes it from holdings.
C12_RemovedStillExpires ==
    [][\A s \in DOMAIN holdings \ Range(UNIVERSE') :
          IF callback' # "rebalance"
          THEN /\ s \in DOMAIN holdings' /\ holdings'[s] = holdings[s]
               /\ Liquidate'[s] = 0
          ELSE IF holdings[s] + 1 < max_holding_period
          THEN /\ s \in DOMAIN holdings' /\ holdings'[s] = holdings[s] + 1
               /\ Liquidate'[s] = 0
          ELSE /\ holdings[s] + 1 = max_holding_period
               /\ Liquidate'[s] = 1
               /\ s \notin DOMAIN holdings']_vars

\* a cycle has liquidated a symbol that was out of the Universe, and removed
\* it from holdings, while the Universe had other symbols
C12_Witness ==
    /\ callback = "rebalance"
    /\ UNIVERSE # <<>>
    /\ \E s \in Symbols \ Range(UNIVERSE) : Liquidate[s] = 1 /\ s \notin DOMAIN holdings

\* C13: the NumHoldings sample is emitted once every max_holding_period
\* rebalance cycles: consecutive Plot calls are exactly max_holding_period
\* cycles apart, and the value plotted is the size of holdings at the end of
\* the cycle that plots.
C13_PlotEveryHoldingPeriod ==
    probe.op = "cycles" =>
        /\ \A i \in 2..Len(probe.plotted) :
               probe.plotted[i] - probe.plotted[i - 1] = max_holding_period
        /\ (callback = "rebalance" /\ Plot # <<>>)
               => Plot = <<Cardinality(DOMAIN holdings)>>

\* C14: the steps of a rebalance cycle run in a fixed order, ageing and
\* liquidation before the entries, so a position opened in a cycle is neither
\* aged nor liquidated in that cycle: every symbol SetHoldings was called for
\* is in holdings with age 0 when the cycle completes.
C14_EnteredAtAgeZero ==
    callback = "rebalance" =>
        \A s \in Entered : s \in DOMAIN holdings /\ holdings[s] = 0

\* a cycle has completed that liquidated and deleted one symbol and entered a
\* position
C14_Witness ==
    /\ callback = "rebalance"
    /\ Entered # {}
    /\ \E s \in Symbols \ DOMAIN holdings : Liquidate[s] = 1

\* the SetHoldings calls for one symbol, in call order
CallsFor(calls, s) == SelectSeq(calls, LAMBDA c : c[1] = s)

\* C15: every candidate that is not a key of holdings when the dedup step runs
\* is entered in that cycle: a short candidate gets exactly one SetHoldings
\* call, with -allocation_pct, a long candidate exactly one, with
\* +allocation_pct, and each is in holdings with age 0 when the cycle completes.
C15_CandidatesEntered ==
    [][probe'.op = "rebalance" =>
          /\ \A s \in Range(probe'.shorts) \ DOMAIN holdings :
                 /\ CallsFor(SetHoldings', s) = <<<<s, ShortSide>>>>
                 /\ s \in DOMAIN holdings' /\ holdings'[s] = 0
          /\ \A s \in Range(probe'.longs) \ DOMAIN holdings :
                 /\ CallsFor(SetHoldings', s) = <<<<s, LongSide>>>>
                 /\ s \in DOMAIN holdings' /\ holdings'[s] = 0]_vars

\* a cycle has entered a long candidate while a short candidate, held and
\* aged, was not entered
C15_Witness ==
    /\ probe.op = "rebalance"
    /\ \E s \in Range(probe.longs) : <<s, LongSide>> \in Range(SetHoldings)
    /\ \E s \in Range(probe.shorts) \ Entered : s \in DOMAIN holdings /\ holdings[s] > 0

\* C16: no position is liquidated early. Liquidate is called only in a
\* rebalance cycle and only for a symbol that is in holdings with an age of at
\* least max_holding_period after that cycle's increment, at most once per
\* symbol and cycle, and the call comes with the deletion of the symbol from
\* holdings: when the cycle completes the symbol is out of holdings, or in it
\* only as a position the same cycle opened afterwards, with age 0.
C16_NoEarlyLiquidation ==
    [][\A s \in Symbols :
          /\ Liquidate'[s] <= 1
          /\ Liquidate'[s] = 1 =>
                 /\ callback' = "rebalance"
                 /\ s \in DOMAIN holdings
                 /\ holdings[s] + 1 >= max_holding_period
                 /\ \/ s \notin DOMAIN holdings'
                    \/ s \in Entered' /\ holdings'[s] = 0]_vars

\* a cycle has liquidated and deleted one symbol and kept another, younger one
C16_Witness ==
    /\ callback = "rebalance"
    /\ \E s \in Symbols \ DOMAIN holdings : Liquidate[s] = 1
    /\ \E u \in DOMAIN holdings :
           Liquidate[u] = 0 /\ holdings[u] \in 1..(max_holding_period - 2)

\* C17: the number of open positions is bounded. While the Universe has had at
\* most N symbols, holdings has at most N * max_holding_period keys, after any
\* sequence of rebalance cycles and universe callbacks.
C17_HoldingsBounded ==
    probe.op = "rotation" =>
        Cardinality(DOMAIN holdings) <= probe.largest * max_holding_period

\* with a Universe of one symbol, a cycle has liquidated the oldest position
\* and entered a new one while max_holding_period positions are open
C17_Witness ==
    /\ probe.op = "rotation" /\ probe.largest = 1
    /\ callback = "rebalance"
    /\ Cardinality(DOMAIN holdings) = max_holding_period
    /\ Entered # {}
    /\ \E s \in Instruments : Liquidate[s] = 1

====
